---- MODULE Spec2Model ----
(***************************************************************************)
(* Model of transcripts/convert_to_markdown.py: the conversion of a JSONL  *)
(* conversation log into a Markdown document.                              *)
(*                                                                         *)
(* A text is a sequence of tokens; a token is a piece of a Python string.  *)
(* The start marker "<system-reminder>" is the two pieces "<system-" and   *)
(* "reminder>" side by side, so that text joined across a removed region   *)
(* can spell a marker, as it can for re.sub on characters.                 *)
(***************************************************************************)
EXTENDS Integers, Sequences, FiniteSets, TLC

VARIABLES
    file, pos, entries, idx, md_lines, md_kinds, message_count, last_speaker,
    pc, output,
    text, cleaned, cpc,
    content, extracted, xpc,
    in1, in2, out1, out2, mpc

convVars == <<file, pos, entries, idx, md_lines, md_kinds, message_count,
              last_speaker, pc, output>>
cleanVars == <<text, cleaned, cpc>>
extractVars == <<content, extracted, xpc>>
mainVars == <<in1, in2, out1, out2, mpc>>
vars == <<convVars, cleanVars, extractVars, mainVars>>

(* ------------------------------ bounds -------------------------------- *)
MaxLines == 3
MaxParts == 4
MaxBlocks == 3
MaxMainLines == 1

(* ------------------------------ tokens -------------------------------- *)
SrOpenL == "<system-"
SrOpenR == "reminder>"
SrOpen == <<SrOpenL, SrOpenR>>
SrClose == <<"</system-reminder>">>
FrOpen == <<"<function_results>">>
FrClose == <<"</function_results>">>
Word == "x"
WS == " "
NL == "\n"
Whitespace == {WS, NL}
\* '*[Tool output received]*' as the prefix line 97 tests and the rest
ToolOutputPrefix == "*[Tool output"
Placeholder == <<ToolOutputPrefix, " received]*">>

(* ----------------------------- clean_text ----------------------------- *)
MatchAt(t, i, m) ==
    /\ i + Len(m) - 1 <= Len(t)
    /\ \A k \in 1..Len(m) : t[i + k - 1] = m[k]

MinOf(S) == CHOOSE x \in S : \A y \in S : x <= y
MaxOf(S) == CHOOSE x \in S : \A y \in S : x >= y

\* the greedy '.*' : the match runs to the last end marker
GreedyEnd(ends) == MaxOf(ends)
\* the non-greedy '.*?' : the match runs to the first end marker
MatchEnd(ends) == MinOf(ends)

RECURSIVE ReSubFrom(_, _, _, _, _)
ReSubFrom(t, i, open, close, repl) ==
    IF i > Len(t) THEN <<>>
    ELSE LET ends == {j \in (i + Len(open))..Len(t) : MatchAt(t, j, close)}
         IN  IF MatchAt(t, i, open) /\ ends # {}
             THEN repl \o ReSubFrom(t, MatchEnd(ends) + Len(close), open, close, repl)
             ELSE <<t[i]>> \o ReSubFrom(t, i + 1, open, close, repl)

\* re.sub(open '.*?' close, repl, t, flags=re.DOTALL)
ReSub(t, open, close, repl) == ReSubFrom(t, 1, open, close, repl)

\* str.strip()
Strip(t) ==
    LET keep == {i \in 1..Len(t) : t[i] \notin Whitespace}
    IN  IF keep = {} THEN <<>> ELSE SubSeq(t, MinOf(keep), MaxOf(keep))

RemoveReminders(t) == ReSub(t, SrOpen, SrClose, <<>>)
ReplaceResults(t) == ReSub(t, FrOpen, FrClose, Placeholder)

clean_text(t) == Strip(ReplaceResults(RemoveReminders(t)))

(* ---------------------------- JSON values ----------------------------- *)
\* a decoded JSON value; JNum stands for the number 5
JStr(s) == [j |-> "str", s |-> s]
JNum == [j |-> "num"]
JNull == [j |-> "null"]
JList(items) == [j |-> "list", items |-> items]
JDict(f) == [j |-> "dict", f |-> f]

\* dict.get(k, dflt)
Get(d, k, dflt) == IF k \in DOMAIN d.f THEN d.f[k] ELSE dflt

\* str(v), and the {v} of an f-string: a string is itself, anything else
\* its representation
PyStr(v) ==
    CASE v.j = "str" -> v.s
      [] v.j = "num" -> <<"5">>
      [] v.j = "null" -> <<"None">>
      [] v.j = "list" -> <<"[...]">>
      [] OTHER -> <<"{...}">>

\* truth value of v in 'if v:'
Truthy(v) ==
    CASE v.j = "str" -> v.s # <<>>
      [] v.j = "num" -> TRUE
      [] v.j = "null" -> FALSE
      [] v.j = "list" -> v.items # <<>>
      [] OTHER -> DOMAIN v.f # {}

(* ------------------------ extract_text_content ------------------------ *)
\* the backquote character, and the three backquotes of a code fence
BT == "backquote"
Fence == "fence"

Raised(e) == [raised |-> TRUE, err |-> e, add |-> <<>>]
Added(t) == [raised |-> FALSE, err |-> "", add |-> t]

\* tool_input.get(k, ''): raises unless tool_input is a dict
FilePathLabel(label, tool_input) ==
    IF tool_input.j # "dict" THEN Raised("AttributeError")
    ELSE Added(<<JStr(<<NL, label>> \o PyStr(Get(tool_input, "file_path", JStr(<<>>)))
                      \o <<"]**", NL>>)>>)

PatternLabel(label, tool_input) ==
    IF tool_input.j # "dict" THEN Raised("AttributeError")
    ELSE Added(<<JStr(<<NL, label, BT>> \o PyStr(Get(tool_input, "pattern", JStr(<<>>)))
                      \o <<BT, "]**", NL>>)>>)

BashLabel(tool_input) ==
    IF tool_input.j # "dict" THEN Raised("AttributeError")
    ELSE LET cmd == Get(tool_input, "command", JStr(<<>>))
             desc == Get(tool_input, "description", JStr(<<>>))
             fence == <<Fence, "bash", NL>> \o PyStr(cmd) \o <<NL, Fence, NL>>
         IN  IF Truthy(desc)
             THEN Added(<<JStr(<<NL, "**[Bash: ">> \o PyStr(desc) \o <<"]**", NL>> \o fence)>>)
             ELSE Added(<<JStr(<<NL>> \o fence)>>)

ToolUseBlock(block) ==
    LET tool_name == Get(block, "name", JStr(<<"unknown">>))
        tool_input == Get(block, "input", JDict(<<>>))
    IN  CASE tool_name = JStr(<<"Bash">>) -> BashLabel(tool_input)
          [] tool_name = JStr(<<"Write">>) -> FilePathLabel("**[Write: ", tool_input)
          [] tool_name = JStr(<<"Edit">>) -> FilePathLabel("**[Edit: ", tool_input)
          [] tool_name = JStr(<<"Read">>) -> FilePathLabel("**[Read: ", tool_input)
          [] tool_name = JStr(<<"Grep">>) -> PatternLabel("**[Grep: ", tool_input)
          [] tool_name = JStr(<<"Glob">>) -> PatternLabel("**[Glob: ", tool_input)
          [] OTHER -> Added(<<JStr(<<NL, "**[Tool: ">> \o PyStr(tool_name) \o <<"]**", NL>>)>>)

\* a dict block: 'text' and 'tool_use' are rendered, any other type adds nothing
DictBlock(block) ==
    LET type == Get(block, "type", JNull)
    IN  CASE type = JStr(<<"text">>) -> Added(<<Get(block, "text", JStr(<<>>))>>)
          [] type = JStr(<<"tool_use">>) -> ToolUseBlock(block)
          [] OTHER -> Added(<<>>)

\* a plain-string block is dropped
NonDictBlockNoStr(block) == Added(<<>>)
\* a block that is not a dict: a plain string is appended, anything else adds nothing
NonDictBlock(block) ==
    IF block.j = "str" THEN Added(<<block>>) ELSE Added(<<>>)

BlockStep(block) ==
    IF block.j = "dict" THEN DictBlock(block) ELSE NonDictBlock(block)

\* the loop over the blocks, appending to texts; r is what the block at i did
RECURSIVE CollectTexts(_, _, _)
RECURSIVE CollectNext(_, _, _, _)
CollectNext(blocks, i, texts, r) ==
    IF r.raised THEN r ELSE CollectTexts(blocks, i + 1, texts \o r.add)

CollectTexts(blocks, i, texts) ==
    IF i > Len(blocks) THEN Added(texts)
    ELSE CollectNext(blocks, i, texts, BlockStep(blocks[i]))

RECURSIVE Concat(_)
Concat(ts) == IF ts = <<>> THEN <<>> ELSE Head(ts) \o Concat(Tail(ts))

Returns(t) == [ok |-> TRUE, err |-> "", text |-> t]
Raises(e) == [ok |-> FALSE, err |-> e, text |-> <<>>]

\* return ''.join(texts), r being what the loop left: join raises when an
\* item is not a string
JoinTexts(r) ==
    IF r.raised THEN Raises(r.err)
    ELSE IF \E i \in 1..Len(r.add) : r.add[i].j # "str" THEN Raises("TypeError")
    ELSE Returns(Concat([i \in 1..Len(r.add) |-> r.add[i].s]))

extract_text_content(c) ==
    CASE c.j = "str" -> Returns(c.s)
      [] c.j = "list" -> JoinTexts(CollectTexts(c.items, 1, <<>>))
      [] OTHER -> Returns(PyStr(c))

(* ---------------------- convert_jsonl_to_markdown --------------------- *)
\* one line of the input file: blank, not decodable, or a JSON value
BlankLine == [kind |-> "blank"]
BadLine == [kind |-> "bad"]
JsonLine(v) == [kind |-> "json", v |-> v]

\* 'if line.strip(): try: entries.append(json.loads(line)) except: continue'
EntriesAfter(es, line) ==
    IF line.kind = "json" THEN Append(es, line.v) ELSE es

\* the loop gives up at a line that fails to decode
NextPosBreak(f, p) == IF f[p].kind = "bad" THEN Len(f) + 1 ELSE p + 1
\* 'for line in f' goes on to the next line, also after 'continue'
NextPos(f, p) == p + 1

RECURSIVE ReadFrom(_, _, _)
ReadFrom(f, p, es) ==
    IF p > Len(f) THEN es
    ELSE ReadFrom(f, NextPos(f, p), EntriesAfter(es, f[p]))

Preamble == <<
    <<"# Development Conversation Transcript">>,
    <<>>,
    <<"This is a transcript of the conversation between Dr. Roy C. Davies and Claude">>,
    <<"during the development of cosmic-bing-wallpaper.">>,
    <<>>,
    <<"**Note:** Tool outputs have been summarized for readability. See the ", BT, ".jsonl", BT, " file">>,
    <<"for the complete raw data including all tool inputs and outputs.">>,
    <<>>,
    <<"---">>,
    <<>> >>

HumanHeader == <<"## Human">>
ClaudeHeader == <<"## Claude">>

\* the locals of the pass when the loop over the entries starts; md_kinds
\* records which statement appended each line of md_lines
StartState ==
    [md_lines |-> Preamble,
     md_kinds |-> [i \in 1..Len(Preamble) |-> "preamble"],
     message_count |-> 0,
     last_speaker |-> "none",
     err |-> ""]

\* the header is appended for every block
EmitAlwaysHeader(st, header, speaker, t) ==
    [st EXCEPT !.md_lines = @ \o <<header, <<>>, t, <<>> >>,
               !.md_kinds = @ \o <<"header", "blank", "body", "blank">>,
               !.last_speaker = speaker,
               !.message_count = @ + 1]
\* the count is not kept
EmitNoCount(st, header, speaker, t) ==
    IF st.last_speaker # speaker
    THEN [st EXCEPT !.md_lines = @ \o <<header, <<>>, t, <<>> >>,
                    !.md_kinds = @ \o <<"header", "blank", "body", "blank">>,
                    !.last_speaker = speaker]
    ELSE [st EXCEPT !.md_lines = @ \o <<t, <<>> >>,
                    !.md_kinds = @ \o <<"body", "blank">>]
\* the block of one emitted message: a header if the speaker changed, the
\* text, a blank line, and the count
Emit(st, header, speaker, t) ==
    IF st.last_speaker # speaker
    THEN [st EXCEPT !.md_lines = @ \o <<header, <<>>, t, <<>> >>,
                    !.md_kinds = @ \o <<"header", "blank", "body", "blank">>,
                    !.last_speaker = speaker,
                    !.message_count = @ + 1]
    ELSE [st EXCEPT !.md_lines = @ \o <<t, <<>> >>,
                    !.md_kinds = @ \o <<"body", "blank">>,
                    !.message_count = @ + 1]

\* text = clean_text(text), r being what extract_text_content did
CleanResult(r) == IF r.ok THEN Returns(clean_text(r.text)) ELSE r

\* content = msg.get('content', ''); text = extract_text_content(content)
MessageText(msg) ==
    IF msg.j # "dict" THEN Raises("AttributeError")
    ELSE CleanResult(extract_text_content(Get(msg, "content", JStr(<<>>))))

\* msg = entry.get('message', {}), and the text of it
EntryText(entry) == MessageText(Get(entry, "message", JDict(<<>>)))

\* the user text is held back only when it is exactly the placeholder
UserGateExact(t) == t # <<>> /\ t # Placeholder
\* 'if text and not text.startswith('*[Tool output')'
UserGate(t) == t # <<>> /\ t[1] # ToolOutputPrefix

\* the assistant text is gated like the user text
AssistantGateAsUser(t) == t # <<>> /\ t[1] # ToolOutputPrefix
\* 'if text'
AssistantGate(t) == t # <<>>

\* an ignored record resets the speaker
OtherEntryReset(st) == [st EXCEPT !.last_speaker = "none"]
\* a record that is neither 'user' nor 'assistant'
OtherEntry(st) == st

\* lines 97-105: the user branch, r being the extracted and cleaned text
UserStep(st, r) ==
    IF ~r.ok THEN [st EXCEPT !.err = r.err]
    ELSE IF UserGate(r.text) THEN Emit(st, HumanHeader, "human", r.text)
    ELSE st

\* lines 113-121: the assistant branch
AssistantStep(st, r) ==
    IF ~r.ok THEN [st EXCEPT !.err = r.err]
    ELSE IF AssistantGate(r.text) THEN Emit(st, ClaudeHeader, "claude", r.text)
    ELSE st

\* the two branches extract and clean the text alike
SpeakerStep(st, entry_type, r) ==
    IF entry_type = JStr(<<"user">>) THEN UserStep(st, r) ELSE AssistantStep(st, r)

TypedStep(st, entry_type, entry) ==
    IF entry_type \in {JStr(<<"user">>), JStr(<<"assistant">>)}
    THEN SpeakerStep(st, entry_type, EntryText(entry))
    ELSE OtherEntry(st)

\* one turn of 'for entry in entries'; entry.get raises unless entry is a dict
EntryStep(st, entry) ==
    IF entry.j # "dict" THEN [st EXCEPT !.err = "AttributeError"]
    ELSE TypedStep(st, Get(entry, "type", JStr(<<>>)), entry)

RECURSIVE RunEntries(_, _, _)
RunEntries(st, es, i) ==
    IF i > Len(es) \/ st.err # "" THEN st
    ELSE RunEntries(EntryStep(st, es[i]), es, i + 1)

\* '\n'.join(md_lines)
RECURSIVE JoinLines(_)
JoinLines(ls) ==
    IF ls = <<>> THEN <<>>
    ELSE IF Len(ls) = 1 THEN ls[1]
    ELSE ls[1] \o <<NL>> \o JoinLines(Tail(ls))

NotWritten == [written |-> FALSE, doc |-> <<>>, reported |-> 0]
Written(st) == [written |-> TRUE, doc |-> JoinLines(st.md_lines), reported |-> st.message_count]

\* lines 123-126 when the loop ended in st; nothing is written when it raised
Outcome(st) ==
    IF st.err # "" THEN [raised |-> TRUE, out |-> NotWritten]
    ELSE [raised |-> FALSE, out |-> Written(st)]

\* the whole call: what it writes, or that it raises
Convert(f) == Outcome(RunEntries(StartState, ReadFrom(f, 1, <<>>), 1))

(* ----------------------------- input sets ----------------------------- *)
Message(c) == JDict([content |-> c])
Record(type, c) == JDict([type |-> JStr(<<type>>), message |-> Message(c)])
GrepBlock == JDict([type |-> JStr(<<"tool_use">>), name |-> JStr(<<"Grep">>),
                    input |-> JDict([pattern |-> JStr(<<"foo.*bar">>)])])
ToolResultBlock == JDict([type |-> JStr(<<"tool_result">>), content |-> JStr(<<Word>>)])
TextBlock(t) == JDict([type |-> JStr(<<"text">>), text |-> t])

LineKinds == {
    BlankLine,
    BadLine,
    JsonLine(JNum),
    JsonLine(JDict([type |-> JStr(<<"summary">>)])),
    JsonLine(Record("user", JStr(<<Word>>))),
    JsonLine(Record("user", JStr(FrOpen \o <<Word>> \o FrClose))),
    JsonLine(Record("user", JStr(FrOpen \o <<Word>> \o FrClose \o <<Word>>))),
    JsonLine(Record("user", JStr(<<Word>> \o FrOpen \o <<Word>> \o FrClose))),
    JsonLine(Record("user", JList(<<ToolResultBlock>>))),
    JsonLine(Record("user", JStr(HumanHeader))),
    JsonLine(Record("assistant", JList(<<TextBlock(JStr(<<Word>>)), GrepBlock>>))),
    JsonLine(Record("assistant", JStr(FrOpen \o <<Word>> \o FrClose))),
    JsonLine(Record("assistant", JStr(SrOpen \o <<Word>> \o SrClose))),
    JsonLine(JDict([type |-> JStr(<<"assistant">>), message |-> JStr(<<Word>>)])) }

SeqsUpTo(S, n) == UNION {[1..k -> S] : k \in 0..n}

(* --------------------- the conversion pass, stepwise ------------------ *)
CurState ==
    [md_lines |-> md_lines, md_kinds |-> md_kinds, message_count |-> message_count,
     last_speaker |-> last_speaker, err |-> ""]

ConvIdle ==
    /\ file = <<>> /\ pos = 1 /\ entries = <<>> /\ idx = 0
    /\ md_lines = <<>> /\ md_kinds = <<>> /\ message_count = 0
    /\ last_speaker = "none" /\ pc = "idle" /\ output = NotWritten
CleanIdle == text = <<>> /\ cleaned = <<>> /\ cpc = "idle"
ExtractIdle ==
    /\ content = JNull
    /\ extracted = [ok |-> TRUE, err |-> "", text |-> <<>>]
    /\ xpc = "idle"
MainIdle ==
    /\ in1 = [exists |-> FALSE, file |-> <<>>]
    /\ in2 = [exists |-> FALSE, file |-> <<>>]
    /\ out1 = [exists |-> FALSE, doc |-> <<>>]
    /\ out2 = [exists |-> FALSE, doc |-> <<>>]
    /\ mpc = "idle"

Init ==
    /\ file \in SeqsUpTo(LineKinds, MaxLines)
    /\ pos = 1 /\ entries = <<>> /\ idx = 0
    /\ md_lines = <<>> /\ md_kinds = <<>> /\ message_count = 0
    /\ last_speaker = "none" /\ pc = "read" /\ output = NotWritten
    /\ CleanIdle /\ ExtractIdle /\ MainIdle

\* lines 64-70, one line of the file
ReadLine ==
    /\ pc = "read" /\ pos <= Len(file)
    /\ entries' = EntriesAfter(entries, file[pos])
    /\ pos' = NextPos(file, pos)
    /\ UNCHANGED <<file, idx, md_lines, md_kinds, message_count, last_speaker, pc, output>>
    /\ UNCHANGED <<cleanVars, extractVars, mainVars>>

\* lines 72-86
BeginDocument ==
    /\ pc = "read" /\ pos > Len(file)
    /\ md_lines' = StartState.md_lines
    /\ md_kinds' = StartState.md_kinds
    /\ message_count' = StartState.message_count
    /\ last_speaker' = StartState.last_speaker
    /\ idx' = 1
    /\ pc' = "process"
    /\ UNCHANGED <<file, pos, entries, output>>
    /\ UNCHANGED <<cleanVars, extractVars, mainVars>>

\* the locals after a turn of the loop that did not raise
Becomes(st) ==
    /\ st.err = ""
    /\ md_lines' = st.md_lines
    /\ md_kinds' = st.md_kinds
    /\ message_count' = st.message_count
    /\ last_speaker' = st.last_speaker

\* lines 88-121, one entry
ProcessEntry ==
    /\ pc = "process" /\ idx <= Len(entries)
    /\ Becomes(EntryStep(CurState, entries[idx]))
    /\ idx' = idx + 1
    /\ UNCHANGED <<file, pos, entries, pc, output>>
    /\ UNCHANGED <<cleanVars, extractVars, mainVars>>

\* lines 88-121, an entry on which the pass raises
ProcessEntryRaises ==
    /\ pc = "process" /\ idx <= Len(entries)
    /\ EntryStep(CurState, entries[idx]).err # ""
    /\ pc' = "raised"
    /\ UNCHANGED <<file, pos, entries, idx, md_lines, md_kinds, message_count,
                   last_speaker, output>>
    /\ UNCHANGED <<cleanVars, extractVars, mainVars>>

\* lines 123-126
WriteDocument ==
    /\ pc = "process" /\ idx > Len(entries)
    /\ output' = Written(CurState)
    /\ pc' = "done"
    /\ UNCHANGED <<file, pos, entries, idx, md_lines, md_kinds, message_count, last_speaker>>
    /\ UNCHANGED <<cleanVars, extractVars, mainVars>>

Next == ReadLine \/ BeginDocument \/ ProcessEntry \/ ProcessEntryRaises \/ WriteDocument

Spec == Init /\ [][Next]_vars

(* ------------------- properties of the conversion pass ---------------- *)
HeaderPositions == {i \in 1..Len(md_kinds) : md_kinds[i] = "header"}
BodyPositions == {i \in 1..Len(md_kinds) : md_kinds[i] = "body"}
Started == pc \in {"process", "raised", "done"}
AtEntry == pc = "process" /\ idx <= Len(entries)
IsRecord(e) == e.j = "dict"
TypeOf(e) == Get(e, "type", JStr(<<>>))
IsUser(e) == IsRecord(e) /\ TypeOf(e) = JStr(<<"user">>)
IsAssistant(e) == IsRecord(e) /\ TypeOf(e) = JStr(<<"assistant">>)
\* the record has a cleaned text: extracting and cleaning it does not raise
HasText(e) == IsRecord(e) /\ EntryText(e).ok
TextOf(e) == EntryText(e).text
LastHeader(lines, kinds) ==
    lines[MaxOf({i \in 1..Len(kinds) : kinds[i] = "header"})]

\* C1: two successive speaker headers of the document (the lines appended as
\* headers, whatever the body lines between them) never name the same
\* speaker, and every header names Human or Claude.
C1_NoRepeatedHeader ==
    /\ \A i \in HeaderPositions : md_lines[i] \in {HumanHeader, ClaudeHeader}
    /\ \A i, j \in HeaderPositions :
          (i < j /\ ~\E k \in HeaderPositions : i < k /\ k < j)
             => md_lines[i] # md_lines[j]

\* three messages were emitted under two headers: two of them share one
C1_Witness ==
    pc = "done" /\ message_count = 3 /\ Cardinality(HeaderPositions) = 2

\* C2 as stated: a user record is emitted iff its cleaned text is non-empty
\* and is not exactly the placeholder.
C2_Original ==
    [][(AtEntry /\ IsUser(entries[idx]))
         => ((message_count' = message_count + 1)
               <=> (/\ HasText(entries[idx])
                    /\ TextOf(entries[idx]) # <<>>
                    /\ TextOf(entries[idx]) # Placeholder))]_vars

\* C2 amended: a user record is emitted iff its text is extracted and cleaned
\* without error, is non-empty and does not start with '*[Tool output'; when
\* emitted, the cleaned text is the body appended, and otherwise the document
\* is left as it was.
C2_UserEmittedIffNoPrefix ==
    [][(AtEntry /\ IsUser(entries[idx]))
         => IF /\ HasText(entries[idx])
               /\ TextOf(entries[idx]) # <<>>
               /\ Head(TextOf(entries[idx])) # ToolOutputPrefix
            THEN /\ message_count' = message_count + 1
                 /\ Len(md_lines') >= Len(md_lines) + 2
                 /\ SubSeq(md_lines', Len(md_lines') - 1, Len(md_lines'))
                      = <<TextOf(entries[idx]), <<>> >>
            ELSE /\ message_count' = message_count
                 /\ md_lines' = md_lines]_vars

\* a user text of the placeholder followed by more was held back, and one of
\* the placeholder preceded by more was emitted
C2_Witness ==
    /\ pc = "done" /\ Len(entries) = 2
    /\ IsUser(entries[1]) /\ TextOf(entries[1]) = Placeholder \o <<Word>>
    /\ IsUser(entries[2]) /\ TextOf(entries[2]) = <<Word>> \o Placeholder
    /\ message_count = 1
    /\ md_lines[Len(md_lines) - 1] = <<Word>> \o Placeholder

IsJson(l) == l.kind = "json"
ValueOf(l) == l.v
\* the decodable lines of f, and their values, in order
Decodable(f) == SelectSeq(f, IsJson)
DecodedOf(f) == [i \in 1..Len(Decodable(f)) |-> ValueOf(Decodable(f)[i])]

\* C3: a blank or undecodable line is skipped and the lines after it are
\* still read: once the file is read the entries are the values of all its
\* decodable lines, and the pass ends as it does on the file without its
\* blank and undecodable lines, with the same document and count.
C3_SkippedLinesChangeNothing ==
    /\ pc # "read" => entries = DecodedOf(file)
    /\ pc \in {"done", "raised"} =>
          /\ Convert(Decodable(file)).raised = (pc = "raised")
          /\ Convert(Decodable(file)).out = output
          /\ pc = "done" => output.reported = message_count

\* an undecodable and a blank line came before an emitted message
C3_Witness ==
    /\ pc = "done" /\ Len(file) = 3
    /\ file[1] = BadLine /\ file[2] = BlankLine
    /\ message_count = 1 /\ output.written

\* C4: the pass raises nothing of its own; it runs to completion on every
\* sequence of input lines.
C4_NeverRaises == pc # "raised"

\* C7: a record whose cleaned text is exactly the placeholder is emitted iff
\* it is an assistant record: then it is a body under a Claude header and the
\* count grows by one; otherwise document and count stay as they were.
C7_PlaceholderOnlyByRole ==
    [][(AtEntry /\ HasText(entries[idx]) /\ TextOf(entries[idx]) = Placeholder)
         => IF IsAssistant(entries[idx])
            THEN /\ message_count' = message_count + 1
                 /\ SubSeq(md_lines', Len(md_lines') - 1, Len(md_lines'))
                      = <<Placeholder, <<>> >>
                 /\ SubSeq(md_kinds', Len(md_kinds') - 1, Len(md_kinds'))
                      = <<"body", "blank">>
                 /\ LastHeader(md_lines', md_kinds') = ClaudeHeader
            ELSE /\ message_count' = message_count
                 /\ md_lines' = md_lines]_vars

\* a user and an assistant record of the placeholder alone were processed;
\* only the assistant's is in the document
C7_Witness ==
    /\ pc = "done" /\ Len(entries) = 2
    /\ IsUser(entries[1]) /\ TextOf(entries[1]) = Placeholder
    /\ IsAssistant(entries[2]) /\ TextOf(entries[2]) = Placeholder
    /\ message_count = 1
    /\ md_lines = Preamble \o <<ClaudeHeader, <<>>, Placeholder, <<>> >>

\* the kinds of the lines after the preamble
Sections == SubSeq(md_kinds, Len(Preamble) + 1, Len(md_kinds))

\* C8: once the document is begun it is the 10-line preamble followed by
\* sections of a header, a blank line and one or more (body, blank) pairs;
\* the count is the number of bodies; a header is always followed by a body;
\* no input lines give the preamble alone and a count of 0.
C8_DocumentShape ==
    Started =>
      /\ Len(md_lines) = Len(md_kinds)
      /\ Len(Preamble) = 10
      /\ SubSeq(md_lines, 1, 10) = Preamble
      /\ Len(Sections) % 2 = 0
      /\ \A p \in 1..Len(Sections) :
            IF p % 2 = 0 THEN Sections[p] = "blank"
            ELSE /\ Sections[p] \in {"header", "body"}
                 /\ p = 1 => Sections[p] = "header"
                 /\ Sections[p] = "header" =>
                       p + 2 <= Len(Sections) /\ Sections[p + 2] = "body"
      /\ \A i \in 11..Len(md_lines) :
            /\ md_kinds[i] = "blank" => md_lines[i] = <<>>
            /\ md_kinds[i] = "body" => md_lines[i] # <<>>
            /\ md_kinds[i] = "header" => md_lines[i] \in {HumanHeader, ClaudeHeader}
      /\ message_count = Cardinality(BodyPositions)
      /\ file = <<>> => md_lines = Preamble /\ message_count = 0
      /\ (file = <<>> /\ pc = "done") =>
            output = [written |-> TRUE, doc |-> JoinLines(Preamble), reported |-> 0]

\* a document of two sections, the first with two bodies
C8_Witness ==
    /\ pc = "done"
    /\ Sections = <<"header", "blank", "body", "blank", "body", "blank",
                    "header", "blank", "body", "blank">>

\* a record the claim lists as not emitted
NotEmitted(e) ==
    /\ IsRecord(e)
    /\ \/ ~IsUser(e) /\ ~IsAssistant(e)
       \/ HasText(e) /\ TextOf(e) = <<>>
       \/ IsUser(e) /\ HasText(e) /\ TextOf(e) # <<>>
            /\ Head(TextOf(e)) = ToolOutputPrefix

\* C10: processing a record that is not emitted leaves the document, the
\* count and the last speaker unchanged; and a record emitted while its
\* speaker is the last speaker adds its body and a blank line and no header.
C10_NotEmittedChangesNothing ==
    [][/\ (AtEntry /\ NotEmitted(entries[idx]))
            => /\ md_lines' = md_lines
               /\ message_count' = message_count
               /\ last_speaker' = last_speaker
               /\ idx' = idx + 1
       /\ (AtEntry /\ message_count' = message_count + 1
             /\ last_speaker = (IF IsUser(entries[idx]) THEN "human" ELSE "claude"))
            => /\ md_lines' = md_lines \o <<TextOf(entries[idx]), <<>> >>
               /\ last_speaker' = last_speaker]_vars

\* two user messages with an ignored record between them, under one header
C10_Witness ==
    /\ pc = "done" /\ Len(entries) = 3
    /\ IsUser(entries[1]) /\ NotEmitted(entries[2]) /\ IsUser(entries[3])
    /\ message_count = 2
    /\ Cardinality(HeaderPositions) = 1

(* ------------------------ clean_text on any text ---------------------- *)
\* the parts the texts are put together from: the markers, the two halves of
\* the start marker, a whole reminder, a word, a space
CleanParts == {
    SrOpen, SrClose, <<SrOpenL>>, <<SrOpenR>>,
    SrOpen \o <<"SECRET">> \o SrClose,
    FrOpen, FrClose, <<Word>>, <<WS>> }

Texts == {Concat(ps) : ps \in SeqsUpTo(CleanParts, MaxParts)}

\* where the system-reminder markers of t start
Starts(t) == {i \in 1..Len(t) : MatchAt(t, i, SrOpen)}
Ends(t) == {i \in 1..Len(t) : MatchAt(t, i, SrClose)}

InitClean ==
    /\ text \in Texts /\ cleaned = <<>> /\ cpc = "call"
    /\ ConvIdle /\ ExtractIdle /\ MainIdle

ApplyClean ==
    /\ cpc = "call"
    /\ cleaned' = clean_text(text)
    /\ cpc' = "done"
    /\ UNCHANGED text
    /\ UNCHANGED <<convVars, extractVars, mainVars>>

NextClean == ApplyClean

SpecClean == InitClean /\ [][NextClean]_vars

\* the markers of t, in order, are start, end, start, end, ...: one or more
\* pairs, none nested
ProperlyPaired(t) ==
    LET starts == Starts(t)
        ends == Ends(t)
    IN  /\ starts # {}
        /\ \A s \in starts :
              \E e \in ends :
                 /\ e > s + 1
                 /\ ~\E m \in starts \cup ends : s < m /\ m < e
        /\ \A e \in ends :
              \E s \in starts :
                 /\ e > s + 1
                 /\ ~\E m \in starts \cup ends : s < m /\ m < e

\* a pair: a start marker and the first end marker after it
Regions(t) ==
    LET starts == Starts(t)
        ends == Ends(t)
    IN  {r \in starts \X ends :
            /\ r[2] > r[1] + 1
            /\ ~\E e \in ends : r[1] + 1 < e /\ e < r[2]}
Positions(t) == [i \in 1..Len(t) |-> i]
\* the positions of t outside every pair, and the text there joined
KeptPositions(t) ==
    LET regions == Regions(t)
        Out(i) == ~\E r \in regions : r[1] <= i /\ i <= r[2]
    IN  SelectSeq(Positions(t), Out)
Outside(t) ==
    LET kept == KeptPositions(t) IN [k \in 1..Len(kept) |-> t[kept[k]]]
NoMarker(t) == Starts(t) = {} /\ Ends(t) = {}

\* C5 as stated: on properly paired markers the result holds no marker and is
\* the text outside the pairs, joined in order and trimmed.
C5_Original ==
    (cpc = "done" /\ ProperlyPaired(text)) =>
        LET outside == Outside(text)
        IN  /\ NoMarker(cleaned)
            /\ cleaned = Strip(outside)

\* C5 amended: on properly paired markers every pair and what it encloses is
\* removed and the text outside the pairs is joined in order; the result is
\* that joined text with its function_results spans replaced by the
\* placeholder, trimmed. No marker of the input is left: a marker in the
\* joined text is spelled by pieces from both sides of a removed pair.
C5_PairsRemovedThenResultsReplaced ==
    (cpc = "done" /\ ProperlyPaired(text)) =>
        LET kept == KeptPositions(text)
            outside == [k \in 1..Len(kept) |-> text[kept[k]]]
        IN  /\ outside = Outside(text)
            /\ cleaned = Strip(ReplaceResults(outside))
            /\ \A i \in 1..Len(cleaned) : cleaned[i] # "SECRET"
            /\ Ends(outside) = {}
            /\ \A s \in Starts(outside) : kept[s + 1] # kept[s] + 1

\* two reminders with text before and between them: that text is kept
C5_Witness ==
    /\ cpc = "done"
    /\ text = <<Word>> \o SrOpen \o <<"SECRET">> \o SrClose \o <<Word>>
                \o SrOpen \o <<"SECRET">> \o SrClose
    /\ cleaned = <<Word, Word>>

(* ------------------ extract_text_content on any content --------------- *)
ToolUse(name, input) ==
    JDict([type |-> JStr(<<"tool_use">>), name |-> JStr(<<name>>), input |-> input])

Blocks == {
    TextBlock(JStr(<<Word>>)),
    TextBlock(JNum),
    JDict([type |-> JStr(<<"text">>)]),
    ToolUse("Bash", JDict([command |-> JStr(<<"ls">>), description |-> JStr(<<"List">>)])),
    ToolUse("Bash", JDict([command |-> JStr(<<"ls">>)])),
    ToolUse("Bash", JNull),
    ToolUse("Write", JDict([file_path |-> JStr(<<"a.py">>)])),
    ToolUse("Edit", JDict([file_path |-> JStr(<<"a.py">>)])),
    ToolUse("Read", JStr(<<"a.py">>)),
    GrepBlock,
    ToolUse("Glob", JDict(<<>>)),
    ToolUse("Task", JNull),
    JDict([type |-> JStr(<<"tool_use">>)]),
    ToolResultBlock,
    JStr(<<Word>>),
    JNum }

Contents == {JList(<<>>), JStr(<<Word>>), JStr(<<>>), JNull, JNum, JDict(<<>>)}

InitExtract ==
    /\ content \in Contents
    /\ extracted = Returns(<<>>)
    /\ xpc = "build"
    /\ ConvIdle /\ CleanIdle /\ MainIdle

AppendBlock ==
    /\ xpc = "build" /\ content.j = "list" /\ Len(content.items) < MaxBlocks
    /\ \E b \in Blocks : content' = JList(Append(content.items, b))
    /\ UNCHANGED <<extracted, xpc>>
    /\ UNCHANGED <<convVars, cleanVars, mainVars>>

ApplyExtract ==
    /\ xpc = "build"
    /\ extracted' = extract_text_content(content)
    /\ xpc' = "done"
    /\ UNCHANGED content
    /\ UNCHANGED <<convVars, cleanVars, mainVars>>

NextExtract == AppendBlock \/ ApplyExtract

SpecExtract == InitExtract /\ [][NextExtract]_vars

IsTextBlock(b) == b.j = "dict" /\ Get(b, "type", JNull) = JStr(<<"text">>)
IsToolUse(b) == b.j = "dict" /\ Get(b, "type", JNull) = JStr(<<"tool_use">>)
Recognized(b) == IsTextBlock(b) \/ IsToolUse(b) \/ b.j = "str"
InputTools ==
    {JStr(<<n>>) : n \in {"Bash", "Write", "Edit", "Read", "Grep", "Glob"}}
\* the blocks on which the call raises: a tool_use block of one of the six
\* tools whose 'input' is not a mapping, a text block whose 'text' is not a
\* string
RaisingBlock(b) ==
    \/ /\ IsToolUse(b)
       /\ Get(b, "name", JNull) \in InputTools
       /\ Get(b, "input", JDict(<<>>)).j # "dict"
    \/ IsTextBlock(b) /\ Get(b, "text", JStr(<<>>)).j # "str"

\* the rendering of a recognized block
Rendering(b) ==
    IF IsTextBlock(b) THEN Get(b, "text", JStr(<<>>)).s
    ELSE IF IsToolUse(b) THEN ToolUseBlock(b).add[1].s
    ELSE b.s

\* C6 as stated: no block is dropped; an unrecognized block contributes its
\* stringified fallback.
C6_Original ==
    (xpc = "done" /\ content.j = "list" /\ extracted.ok) =>
        extracted.text =
            Concat([i \in 1..Len(content.items) |->
                       IF Recognized(content.items[i])
                       THEN Rendering(content.items[i])
                       ELSE PyStr(content.items[i])])

\* C6 amended: for a sequence of blocks the result is the in-order
\* concatenation of the renderings of its text, tool_use and plain-string
\* blocks; a block of any other shape contributes nothing; and the call
\* raises instead when a block is one of the raising blocks.
C6_UnrecognizedBlocksDropped ==
    (xpc = "done" /\ content.j = "list") =>
        IF \E i \in 1..Len(content.items) : RaisingBlock(content.items[i])
        THEN ~extracted.ok
        ELSE extracted =
               Returns(Concat([i \in 1..Len(content.items) |->
                                 IF Recognized(content.items[i])
                                 THEN Rendering(content.items[i])
                                 ELSE <<>>]))

\* a tool_result block and a number between two texts add nothing
C6_Witness ==
    /\ xpc = "done"
    /\ content = JList(<<JStr(<<Word>>), ToolResultBlock, TextBlock(JStr(<<Word>>))>>)
    /\ extracted = Returns(<<Word, Word>>)

(* -------------------------- the batch entry --------------------------- *)
Missing == [exists |-> FALSE, file |-> <<>>]
Present(f) == [exists |-> TRUE, file |-> f]
Absent == [exists |-> FALSE, doc |-> <<>>]
OldFile == [exists |-> TRUE, doc |-> <<"old">>]
FileOf(out) == [exists |-> TRUE, doc |-> out.doc]

MainLineKinds == {
    BadLine,
    JsonLine(JNum),
    JsonLine(Record("user", JStr(<<Word>>))),
    JsonLine(Record("assistant", JStr(FrOpen \o <<Word>> \o FrClose))) }

Inputs == {Missing} \cup {Present(f) : f \in SeqsUpTo(MainLineKinds, MaxMainLines)}

InitMain ==
    /\ in1 \in Inputs /\ in2 \in Inputs
    /\ out1 \in {Absent, OldFile} /\ out2 \in {Absent, OldFile}
    /\ mpc = "part1"
    /\ ConvIdle /\ CleanIdle /\ ExtractIdle

\* lines 134-135, r being what the call did: an error ends the script
Part1Done(r) ==
    IF r.raised THEN mpc' = "raised" /\ out1' = out1
    ELSE mpc' = "part2" /\ out1' = FileOf(r.out)

ConvertPart1 ==
    /\ mpc = "part1" /\ in1.exists
    /\ Part1Done(Convert(in1.file))
    /\ UNCHANGED <<in1, in2, out2>>
    /\ UNCHANGED <<convVars, cleanVars, extractVars>>

SkipPart1 ==
    /\ mpc = "part1" /\ ~in1.exists
    /\ mpc' = "part2"
    /\ UNCHANGED <<in1, in2, out1, out2>>
    /\ UNCHANGED <<convVars, cleanVars, extractVars>>

\* lines 140-141
Part2Done(r) ==
    IF r.raised THEN mpc' = "raised" /\ out2' = out2
    ELSE mpc' = "done" /\ out2' = FileOf(r.out)

ConvertPart2 ==
    /\ mpc = "part2" /\ in2.exists
    /\ Part2Done(Convert(in2.file))
    /\ UNCHANGED <<in1, in2, out1>>
    /\ UNCHANGED <<convVars, cleanVars, extractVars>>

SkipPart2 ==
    /\ mpc = "part2" /\ ~in2.exists
    /\ mpc' = "done"
    /\ UNCHANGED <<in1, in2, out1, out2>>
    /\ UNCHANGED <<convVars, cleanVars, extractVars>>

NextMain == ConvertPart1 \/ SkipPart1 \/ ConvertPart2 \/ SkipPart2

SpecMain == InitMain /\ [][NextMain]_vars

\* C9: the script completes normally for every combination of existing and
\* missing inputs, and when it is done output i is written iff input i
\* exists, the output of a missing input being left as it was.
C9_Original ==
    /\ mpc # "raised"
    /\ mpc = "done" =>
          /\ in1.exists => out1 = FileOf(Convert(in1.file).out)
          /\ ~in1.exists => out1 \in {Absent, OldFile}
          /\ in2.exists => out2 = FileOf(Convert(in2.file).out)
          /\ ~in2.exists => out2 \in {Absent, OldFile}

====
